---- MODULE Spec2Model ----
(***************************************************************************)
(* A model of the role invocation bridge of ace/claude/session.py          *)
(* (ACEClaudeSession): the hook bus, the remote attempt over the Claude    *)
(* Agent SDK message exchange, the decoding of the matched tool result and *)
(* the local fallback; and of the closed cycle of                          *)
(* ace/skills_builder/tools (ClosedCycleCoordinator and TestRunner).       *)
(***************************************************************************)
EXTENDS Integers, Sequences, FiniteSets, TLC

VARIABLES
    sdk,                \* module level: ClaudeSDKClient (and the other SDK names) imported
    agent_invoker,      \* self._agent_invoker is not None
    fallback,           \* role -> self._fallback_<role> is not None
    hooks,              \* self._hooks, a list of HookMatcher values
    clientKind,         \* what kind of object the SDK client of this session is
    session,            \* self._session: "None", "client" or "session"
    call,               \* the role invocation the caller has just made, with its result
    lifecycle,          \* history: sessions started and closed, and the last ensure_session or close call
    registrations,      \* history: the matchers given to the constructor and to register_hooks
    emission,           \* the last _emit_hook call: its event and the callbacks it ran
    playbook,           \* the caller's Playbook, passed to every role invocation
    decoding,           \* the last candidate content decoded, with what came of it
    runner,             \* the last TestRunner.run_tests call, with what came of it
    session_id,         \* ClosedCycleCoordinator.session_id
    task_id,            \* ClosedCycleCoordinator.task_id
    phase_transitions,  \* ClosedCycleCoordinator.phase_transitions
    test_results,       \* ClosedCycleCoordinator.test_results
    accepted_deltas,    \* ClosedCycleCoordinator.accepted_deltas
    rejected_deltas,    \* ClosedCycleCoordinator.rejected_deltas
    cycle_op,           \* the last operation called on the coordinator, with its result
    cycle_calls,        \* history: how many operations the coordinator has been asked for
    summary             \* the ClosedCycleSummary of the last Document phase, as its caller holds it

bridgeVars == <<sdk, agent_invoker, fallback, hooks, clientKind, session, call, lifecycle>>
hookVars == <<registrations, emission>>
cycleVars == <<session_id, task_id, phase_transitions, test_results, accepted_deltas,
               rejected_deltas, cycle_op, cycle_calls, summary>>

vars == <<bridgeVars, hookVars, playbook, decoding, runner, cycleVars>>

Roles == {"generator", "reflector", "curator"}

\* payload["agent"] of each run_* method
AgentName(role) ==
    CASE role = "generator" -> "ace-generator"
      [] role = "reflector" -> "ace-reflector"
      [] role = "curator"   -> "ace-curator"

(***************************************************************************)
(* JSON values. An object (a Python dict) is a set of members [k, v] with  *)
(* distinct keys; a value is a string, an int or a list of values.         *)
(***************************************************************************)
VStr(s)  == [ty |-> "str",  s |-> s,  l |-> <<>>]
VInt(s)  == [ty |-> "int",  s |-> s,  l |-> <<>>]
VList(l) == [ty |-> "list", s |-> "", l |-> l]

HasKey(data, k) == \E m \in data : m.k = k

\* dict.get(k, default)
Get(data, k, default) ==
    IF HasKey(data, k) THEN (CHOOSE m \in data : m.k = k).v ELSE default

\* d[k] = v
Put(data, k, v) == {m \in data : m.k # k} \cup {[k |-> k, v |-> v]}

\* str(value): the text of a string, the digits of an int, the repr of a list
Str(v) ==
    CASE v.ty = "str"  -> v.s
      [] v.ty = "int"  -> v.s
      [] v.ty = "list" -> IF v.l = <<>> THEN "[]" ELSE "[...]"
      [] v.ty = "dict" -> "{...}"

(***************************************************************************)
(* Text is a sequence of tokens: "ws" is a whitespace character, "{" and   *)
(* "}" the braces, "7" a number literal, "x" a character that starts no    *)
(* JSON value, and a member token stands for one serialized "key": value   *)
(* pair of an object.                                                      *)
(***************************************************************************)
MemberTokens == {"fa", "bi", "re", "op"}

MemberOf(tok) ==
    CASE tok = "fa" -> [k |-> "final_answer", v |-> VStr("42")]
      [] tok = "bi" -> [k |-> "bullet_ids",   v |-> VList(<<VStr("b-1")>>)]
      [] tok = "re" -> [k |-> "reasoning",    v |-> VStr("sdk")]
      [] tok = "op" -> [k |-> "operations",   v |-> VList(<<VStr("ADD")>>)]

RECURSIVE LStrip(_)
LStrip(text) ==
    IF text # <<>> /\ Head(text) = "ws" THEN LStrip(Tail(text)) ELSE text

RECURSIVE RStrip(_)
RStrip(text) ==
    IF text # <<>> /\ text[Len(text)] = "ws"
    THEN RStrip(SubSeq(text, 1, Len(text) - 1))
    ELSE text

\* str.strip()
Strip(text) == RStrip(LStrip(text))

\* whitespace between JSON tokens is insignificant to json.loads
RECURSIVE DropWs(_)
DropWs(text) ==
    IF text = <<>> THEN <<>>
    ELSE IF Head(text) = "ws" THEN DropWs(Tail(text))
    ELSE <<Head(text)>> \o DropWs(Tail(text))

RECURSIVE MembersToObject(_, _)
MembersToObject(toks, acc) ==
    IF toks = <<>> THEN acc
    ELSE MembersToObject(Tail(toks),
                         Put(acc, MemberOf(Head(toks)).k, MemberOf(Head(toks)).v))

\* "fa1" and "fa2" are the first and the second half of the characters of the
\* member token "fa": side by side they are the token, apart they are no JSON
RECURSIVE Glue(_)
Glue(text) ==
    IF Len(text) < 2 THEN text
    ELSE IF text[1] = "fa1" /\ text[2] = "fa2"
    THEN <<"fa">> \o Glue(SubSeq(text, 3, Len(text)))
    ELSE <<text[1]>> \o Glue(Tail(text))

\* json.loads(text): [ok, isObject, obj]; ok = FALSE is a JSONDecodeError
JsonLoads(text) ==
    LET t == DropWs(Glue(text))
        n == Len(t)
    IN  IF t = <<"7">>
        THEN [ok |-> TRUE, isObject |-> FALSE, obj |-> {}]
        ELSE IF /\ n >= 2
                /\ t[1] = "{"
                /\ t[n] = "}"
                /\ \A i \in 2..(n - 1) : t[i] \in MemberTokens
        THEN [ok |-> TRUE, isObject |-> TRUE,
              obj |-> MembersToObject(SubSeq(t, 2, n - 1), {})]
        ELSE [ok |-> FALSE, isObject |-> FALSE, obj |-> {}]

(***************************************************************************)
(* Errors. cls is the Python exception class, site the raise statement.    *)
(***************************************************************************)
NoError == [cls |-> "none", site |-> "none", msg |-> "none"]
Err(cls, site, msg) == [cls |-> cls, site |-> site, msg |-> msg]

\* except ClaudeAgentRuntimeUnavailable (the class and its subclasses)
IsRuntimeUnavailable(err) == err.cls = "ClaudeAgentRuntimeUnavailable"

(***************************************************************************)
(* Tool result content: an object, a string, a list of fragments, None or  *)
(* anything else.                                                          *)
(***************************************************************************)
CDict(o)  == [shape |-> "dict",  obj |-> o,  text |-> <<>>, items |-> <<>>]
CStr(t)   == [shape |-> "str",   obj |-> {}, text |-> t,    items |-> <<>>]
CList(is) == [shape |-> "list",  obj |-> {}, text |-> <<>>, items |-> is]
CNone     == [shape |-> "none",  obj |-> {}, text |-> <<>>, items |-> <<>>]
COther    == [shape |-> "other", obj |-> {}, text |-> <<>>, items |-> <<>>]

\* a list item: a dict with a "text" key, a dict without one, or no dict at all
Fragment(t) == [isDict |-> TRUE,  hasText |-> TRUE,  text |-> t]
ImageItem   == [isDict |-> TRUE,  hasText |-> FALSE, text |-> <<>>]
BareItem    == [isDict |-> FALSE, hasText |-> FALSE, text |-> <<>>]

RECURSIVE JoinParts_Lines(_)
\* mutant: "\n".join(parts)
JoinParts_Lines(items) ==
    IF items = <<>> THEN <<>>
    ELSE LET it == Head(items) IN
         (IF it.isDict /\ it.hasText THEN it.text ELSE <<>>)
         \o (IF Tail(items) = <<>> THEN <<>> ELSE <<"ws">>)
         \o JoinParts_Lines(Tail(items))

\* "".join(parts) over the items that are dicts with a "text" key
RECURSIVE JoinParts(_)
JoinParts(items) ==
    IF items = <<>> THEN <<>>
    ELSE LET it == Head(items) IN
         (IF it.isDict /\ it.hasText THEN it.text ELSE <<>>) \o JoinParts(Tail(items))

Returned(v) == [raised |-> FALSE, err |-> NoError, isNone |-> FALSE, val |-> v]
Raised(e)   == [raised |-> TRUE,  err |-> e,       isNone |-> TRUE,  val |-> {}]
ReturnedNone == [raised |-> FALSE, err |-> NoError, isNone |-> TRUE, val |-> {}]


\* mutant: a payload that does not parse to an object counts as an empty result
_parse_tool_result_Lenient(content) ==
    IF content.shape = "dict" THEN Returned(content.obj)
    ELSE
      LET text == CASE content.shape = "str"  -> Strip(content.text)
                    [] content.shape = "list" -> Strip(JoinParts(content.items))
                    [] OTHER                  -> <<>>
      IN  IF text = <<>> THEN Returned({})
          ELSE LET data == JsonLoads(text) IN
               IF data.ok /\ data.isObject THEN Returned(data.obj) ELSE Returned({})

_parse_tool_result(content) ==
    IF content.shape = "dict" THEN Returned(content.obj)
    ELSE
      LET text == CASE content.shape = "str"  -> Strip(content.text)
                    [] content.shape = "list" -> Strip(JoinParts(content.items))
                    [] OTHER                  -> <<>>
      IN  IF text = <<>> THEN Returned({})
          ELSE LET data == JsonLoads(text) IN
               IF ~data.ok
               THEN Raised(Err("ValueError", "non_json_payload", "non-JSON payload"))
               ELSE IF ~data.isObject
               THEN Raised(Err("ValueError", "not_an_object", "must be a JSON object"))
               ELSE Returned(data.obj)

(***************************************************************************)
(* Role outputs (ace.roles): GeneratorOutput, ReflectorOutput and          *)
(* CuratorOutput, each keeping the decoded object in raw.                  *)
(***************************************************************************)
VDict(o) == [ty |-> "dict", s |-> "", l |-> <<>>, o |-> o]

\* the characters of a string, as iterating over a str yields them
Chars(s) ==
    CASE s = ""    -> <<>>
      [] s = "42"  -> <<"4", "2">>
      [] s = "sdk" -> <<"s", "d", "k">>
      [] s = "b-1" -> <<"b", "-", "1">>

\* str.lower()
Lower(s) == IF s = "HELPFUL" THEN "helpful" ELSE s

RECURSIVE StrItems(_)
\* [str(item) for item in payload if isinstance(item, (str, int))]
StrItems(l) ==
    IF l = <<>> THEN <<>>
    ELSE (IF Head(l).ty \in {"str", "int"} THEN <<Str(Head(l))>> ELSE <<>>)
         \o StrItems(Tail(l))

_coerce_generator_output(data) ==
    LET bullet_ids_payload == Get(data, "bullet_ids", VList(<<>>))
        bullet_ids ==
            CASE bullet_ids_payload.ty = "list" -> StrItems(bullet_ids_payload.l)
              [] bullet_ids_payload.ty = "str"  -> Chars(bullet_ids_payload.s)
              [] OTHER                          -> <<>>
    IN  [role         |-> "generator",
         reasoning    |-> Str(Get(data, "reasoning", VStr(""))),
         final_answer |-> Str(Get(data, "final_answer", VStr(""))),
         bullet_ids   |-> bullet_ids,
         raw          |-> data]

RECURSIVE TagItems(_)
\* BulletTag(id=str(item["id"]), tag=str(item["tag"]).lower()) for the dict items
\* that have both keys
TagItems(l) ==
    IF l = <<>> THEN <<>>
    ELSE LET item == Head(l) IN
         (IF item.ty = "dict" /\ HasKey(item.o, "id") /\ HasKey(item.o, "tag")
          THEN <<[id  |-> Str(Get(item.o, "id", VStr(""))),
                  tag |-> Lower(Str(Get(item.o, "tag", VStr(""))))]>>
          ELSE <<>>)
         \o TagItems(Tail(l))

_coerce_reflector_output(data) ==
    LET tags_payload == Get(data, "bullet_tags", VList(<<>>))
        bullet_tags ==
            CASE tags_payload.ty = "list" -> TagItems(tags_payload.l)
              [] OTHER                    -> <<>>
    IN  [role                 |-> "reflector",
         reasoning            |-> Str(Get(data, "reasoning", VStr(""))),
         error_identification |-> Str(Get(data, "error_identification", VStr(""))),
         root_cause_analysis  |-> Str(Get(data, "root_cause_analysis", VStr(""))),
         correct_approach     |-> Str(Get(data, "correct_approach", VStr(""))),
         key_insight          |-> Str(Get(data, "key_insight", VStr(""))),
         bullet_tags          |-> bullet_tags,
         raw                  |-> data]

RECURSIVE Operations(_)
Operations(l) ==
    IF l = <<>> THEN <<>>
    ELSE (IF Head(l).ty = "dict"
          THEN <<[kind    |-> Str(Get(Head(l).o, "type", VStr(""))),
                  content |-> Str(Get(Head(l).o, "content", VStr("")))]>>
          ELSE <<>>)
         \o Operations(Tail(l))

\* DeltaBatch.from_json (ace.delta): the ordered operations of the batch
DeltaBatch_from_json(target) ==
    LET ops == Get(target, "operations", VList(<<>>)) IN
    [reasoning  |-> Str(Get(target, "reasoning", VStr(""))),
     operations |-> IF ops.ty = "list" THEN Operations(ops.l) ELSE <<>>]

_coerce_curator_output(data) ==
    LET delta_payload == Get(data, "delta", VStr(""))
        target == IF delta_payload.ty = "dict" THEN delta_payload.o ELSE data
    IN  [role  |-> "curator",
         delta |-> DeltaBatch_from_json(target),
         raw   |-> data]

Coerce(role, data) ==
    CASE role = "generator" -> _coerce_generator_output(data)
      [] role = "reflector" -> _coerce_reflector_output(data)
      [] role = "curator"   -> _coerce_curator_output(data)

NoOutput == [role |-> "none"]

(***************************************************************************)
(* The messages of one exchange with the remote backend.                   *)
(***************************************************************************)
ToolUseId(agent, uuid) == [agent |-> agent, uuid |-> uuid]

ToolResultBlock(id, is_error, content) ==
    [type |-> "tool_result", tool_use_id |-> id, is_error |-> is_error,
     content |-> content]

TextBlock ==
    [type |-> "text", tool_use_id |-> ToolUseId("none", "none"), is_error |-> FALSE,
     content |-> CNone]

AssistantMessage(blocks) ==
    [type |-> "assistant", content |-> blocks, is_error |-> FALSE, result |-> ""]

\* result = "" stands for a ResultMessage whose result is None or empty
ResultMessage(is_error, result) ==
    [type |-> "result", content |-> <<>>, is_error |-> is_error, result |-> result]

SystemMessage ==
    [type |-> "system", content |-> <<>>, is_error |-> FALSE, result |-> ""]

\* the text of an f-string that embeds the content of an error block
ContentText(content) ==
    IF content.shape = "str" /\ content.text = <<"boom">> THEN "boom" ELSE "content"

\* tool_content: None or the content of the last matching block
NoContent == [isNone |-> TRUE, c |-> CNone]
SomeContent(c) == [isNone |-> c.shape = "none", c |-> c]

Scanned(tc)    == [raised |-> FALSE, err |-> NoError, tool_content |-> tc]
ScanRaised(e)  == [raised |-> TRUE,  err |-> e,       tool_content |-> NoContent]


RECURSIVE ScanBlocks_AnyId(_, _, _)
\* mutant: every tool result block is taken, whatever its tool_use_id
ScanBlocks_AnyId(blocks, tool_use_id, tool_content) ==
    IF blocks = <<>> THEN Scanned(tool_content)
    ELSE LET block == Head(blocks) IN
         IF block.type = "tool_result"
         THEN IF block.is_error
              THEN ScanRaised(Err("RuntimeError", "block_is_error",
                                  ContentText(block.content)))
              ELSE ScanBlocks_AnyId(Tail(blocks), tool_use_id, SomeContent(block.content))
         ELSE ScanBlocks_AnyId(Tail(blocks), tool_use_id, tool_content)

RECURSIVE ScanBlocks(_, _, _)
\* for block in message.content
ScanBlocks(blocks, tool_use_id, tool_content) ==
    IF blocks = <<>> THEN Scanned(tool_content)
    ELSE LET block == Head(blocks) IN
         IF block.type = "tool_result" /\ block.tool_use_id = tool_use_id
         THEN IF block.is_error
              THEN ScanRaised(Err("RuntimeError", "block_is_error",
                                  ContentText(block.content)))
              ELSE ScanBlocks(Tail(blocks), tool_use_id, SomeContent(block.content))
         ELSE ScanBlocks(Tail(blocks), tool_use_id, tool_content)

RECURSIVE ScanMessages(_, _, _)
\* for message in messages
ScanMessages(messages, tool_use_id, tool_content) ==
    IF messages = <<>> THEN Scanned(tool_content)
    ELSE LET message == Head(messages)
             inner == IF message.type = "assistant"
                      THEN ScanBlocks(message.content, tool_use_id, tool_content)
                      ELSE Scanned(tool_content)
         IN  IF inner.raised THEN inner
             ELSE IF message.type = "result" /\ message.is_error
             THEN ScanRaised(Err("RuntimeError", "result_is_error",
                                 IF message.result # "" THEN message.result
                                 ELSE "reported an error"))
             ELSE ScanMessages(Tail(messages), tool_use_id, inner.tool_content)

(***************************************************************************)
(* What the collaborators of one role invocation do: the injected agent    *)
(* invoker, the transport and backend of the SDK exchange, uuid4, and the  *)
(* local role implementation.                                              *)
(***************************************************************************)
InvokerReturns(d)  == [kind |-> "dict",  d |-> d,  err |-> NoError]
InvokerReturnsNone == [kind |-> "none",  d |-> {}, err |-> NoError]
InvokerRaises(e)   == [kind |-> "raise", d |-> {}, err |-> e]

Env(invoker, transport_ok, messages, uuid, local) ==
    [invoker |-> invoker, transport_ok |-> transport_ok, messages |-> messages,
     uuid |-> uuid, local |-> local]

(***************************************************************************)
(* Session lifecycle                                                       *)
(***************************************************************************)
\* self._session after ensure_session(), for a session that has the SDK
SessionAfterEnsure(kind, sess) ==
    IF sess # "None" THEN sess
    ELSE CASE kind = "plain"   -> "client"    \* no start_session attribute
           [] kind = "starter" -> "session"   \* start_session(options) returns
           [] kind = "attrerr" -> "client"    \* start_session raises AttributeError
           [] kind = "broken"  -> "None"      \* start_session raises anything else

\* the count of sessions started, over a step that takes self._session from
\* sess to sess2: ensure_session starts one when it leaves None for a session
Started(lc, sess, sess2) ==
    IF sess = "None" /\ sess2 # "None" THEN [lc EXCEPT !.started = @ + 1] ELSE lc

\* mutant: close() without its finally clause
SessionAfterClose_NoFinally(sess, behaviour) ==
    IF behaviour = "raises" THEN sess ELSE "None"

\* self._session after close() on an open session whose close attribute is
\* absent, returns or raises: the finally clause sets it to None
SessionAfterClose(sess, behaviour) == "None"

(***************************************************************************)
(* The remote attempt                                                      *)
(***************************************************************************)
_invoke_claude_agent_via_sdk(agent, env, sdkOk) ==
    IF ~sdkOk
    THEN Raised(Err("ClaudeAgentRuntimeUnavailable", "sdk_not_available",
                    "SDK is not fully available"))
    ELSE IF ~env.transport_ok
    THEN Raised(Err("Exception", "transport", "query failed"))
    ELSE LET tool_use_id == ToolUseId(agent, env.uuid)
             scan == ScanMessages(env.messages, tool_use_id, NoContent)
         IN  IF scan.raised THEN Raised(scan.err)
             ELSE IF scan.tool_content.isNone THEN ReturnedNone
             ELSE _parse_tool_result(scan.tool_content.c)

_invoke_claude_agent(agent, env, sdkOk, hasInvoker) ==
    IF hasInvoker
    THEN CASE env.invoker.kind = "dict"  -> Returned(env.invoker.d)
           [] env.invoker.kind = "none"  -> ReturnedNone
           [] env.invoker.kind = "raise" -> Raised(env.invoker.err)
    ELSE _invoke_claude_agent_via_sdk(agent, env, sdkOk)

\* _run_generator_via_sdk, _run_reflector_via_sdk, _run_curator_via_sdk
NoRemote == [raised |-> FALSE, err |-> NoError, isNone |-> TRUE, output |-> NoOutput]

\* mutant: "if not result" in the place of "if result is None"
_run_via_sdk_Falsy(role, env, sdkOk, hasInvoker) ==
    LET result == _invoke_claude_agent(AgentName(role), env, sdkOk, hasInvoker) IN
    IF result.raised
    THEN [raised |-> TRUE, err |-> result.err, isNone |-> TRUE, output |-> NoOutput]
    ELSE IF result.isNone \/ result.val = {} THEN NoRemote
    ELSE [raised |-> FALSE, err |-> NoError, isNone |-> FALSE,
          output |-> Coerce(role, result.val)]

_run_via_sdk(role, env, sdkOk, hasInvoker) ==
    LET result == _invoke_claude_agent(AgentName(role), env, sdkOk, hasInvoker) IN
    IF result.raised
    THEN [raised |-> TRUE, err |-> result.err, isNone |-> TRUE, output |-> NoOutput]
    ELSE IF result.isNone THEN NoRemote
    ELSE [raised |-> FALSE, err |-> NoError, isNone |-> FALSE,
          output |-> Coerce(role, result.val)]

(***************************************************************************)
(* The local implementations                                               *)
(***************************************************************************)
\* what the registered Generator, Reflector and Curator return
LocalOutput(role) ==
    CASE role = "generator" ->
           [role |-> "generator", reasoning |-> "calc", final_answer |-> "4",
            bullet_ids |-> <<"b-1">>,
            raw |-> {[k |-> "final_answer", v |-> VStr("4")]}]
      [] role = "reflector" ->
           [role |-> "reflector", reasoning |-> "ok", error_identification |-> "",
            root_cause_analysis |-> "", correct_approach |-> "",
            key_insight |-> "Use addition",
            bullet_tags |-> <<[id |-> "b-1", tag |-> "helpful"]>>,
            raw |-> {[k |-> "key_insight", v |-> VStr("Use addition")]}]
      [] role = "curator" ->
           [role |-> "curator",
            delta |-> [reasoning |-> "update",
                       operations |-> <<[kind |-> "ADD", content |-> "Add numbers"]>>],
            raw |-> {[k |-> "reasoning", v |-> VStr("update")]}]


\* mutant: no check that a fallback is registered; calling None raises AttributeError
_run_locally_Unchecked(role, registered, local) ==
    IF ~registered
    THEN [raised |-> TRUE, err |-> Err("AttributeError", "local_implementation", "None"),
          output |-> NoOutput, calls |-> 0]
    ELSE IF local = "raises"
    THEN [raised |-> TRUE, err |-> Err("AssertionError", "local_implementation", "local"),
          output |-> NoOutput, calls |-> 1]
    ELSE [raised |-> FALSE, err |-> NoError, output |-> LocalOutput(role), calls |-> 1]

\* _run_generator_locally, _run_reflector_locally, _run_curator_locally:
\* [raised, err, output, calls], calls counting the calls of the implementation
_run_locally(role, registered, local) ==
    IF ~registered
    THEN [raised |-> TRUE,
          err |-> Err("ClaudeAgentRuntimeUnavailable", "fallback_not_configured",
                      "fallback not configured"),
          output |-> NoOutput, calls |-> 0]
    ELSE IF local = "raises"
    THEN [raised |-> TRUE, err |-> Err("AssertionError", "local_implementation", "local"),
          output |-> NoOutput, calls |-> 1]
    ELSE [raised |-> FALSE, err |-> NoError, output |-> LocalOutput(role), calls |-> 1]

(***************************************************************************)
(* The hook bus                                                            *)
(***************************************************************************)
HookMatcher(event, callback) == [event |-> event, callback |-> callback]

\* mutant: a matcher answers to every label
matches_Any(hook, event) == TRUE

\* HookMatcher.matches
matches(hook, event) == hook.event = event

\* a callback that raises
CallbackRaises(hook) == hook.callback = "failing"


\* mutant: no try/except around the call of a hook
HookErrorSwallowed_Not(hook) == FALSE

\* except Exception: the failure of a hook is logged and the loop goes on
HookErrorSwallowed(hook) == TRUE

RECURSIVE EmitFrom(_, _, _, _)
\* _emit_hook from position i of self._hooks on: the callbacks it runs, and whether
\* the failure of one of them leaves the loop
EmitFrom(hs, i, event, agent) ==
    IF i > Len(hs) THEN [callbacks |-> <<>>, raised |-> FALSE]
    ELSE IF ~matches(hs[i], event) THEN EmitFrom(hs, i + 1, event, agent)
    ELSE LET ran == [hook |-> i, callback |-> hs[i].callback, event |-> event,
                     agent |-> agent]
         IN  IF CallbackRaises(hs[i]) /\ ~HookErrorSwallowed(hs[i])
             THEN [callbacks |-> <<ran>>, raised |-> TRUE]
             ELSE LET rest == EmitFrom(hs, i + 1, event, agent) IN
                  [callbacks |-> <<ran>> \o rest.callbacks, raised |-> rest.raised]

_emit_hook(hs, event, agent) == EmitFrom(hs, 1, event, agent)

HookError == Err("HookError", "hook_callback", "hook failed")

NoDelta == [reasoning |-> "", operations |-> <<>>]

\* the payload of the pre_tool_use event
PrePayload(role) ==
    [event |-> "pre_tool_use", agent |-> AgentName(role), has_result |-> FALSE,
     output |-> NoOutput, has_delta |-> FALSE, delta |-> NoDelta]


\* mutant: the curator's payload update leaves out the delta
PostPayload_NoDelta(role, output) ==
    [event |-> "post_tool_use", agent |-> AgentName(role), has_result |-> TRUE,
     output |-> output, has_delta |-> FALSE, delta |-> NoDelta]

\* payload.update({...}) before the post_tool_use event
PostPayload(role, output) ==
    [event |-> "post_tool_use", agent |-> AgentName(role), has_result |-> TRUE,
     output |-> output, has_delta |-> role = "curator",
     delta |-> IF role = "curator" THEN output.delta ELSE NoDelta]

(***************************************************************************)
(* run_generator, run_reflector, run_curator                               *)
(***************************************************************************)

\* mutant: except RuntimeError: raise
Reraised_RuntimeError(err) ==
    err.cls \in {"ClaudeAgentRuntimeUnavailable", "RuntimeError"}

\* mutant: no handler for the other exceptions
Reraised_All(err) == TRUE

\* mutant: no handler for ClaudeAgentRuntimeUnavailable
Reraised_None(err) == FALSE

\* except ClaudeAgentRuntimeUnavailable: raise
Reraised(err) == IsRuntimeUnavailable(err)


\* mutant: the remote path is tried without looking at sdk_available
RemoteAttempted_Always(sdkOk) == TRUE

\* if self.sdk_available:
RemoteAttempted(sdkOk) == sdkOk


\* mutant: the local implementation runs whatever the remote path returned
NeedsLocal_Always(remote) == TRUE

\* if output is None:
NeedsLocal(remote) == remote.raised \/ remote.isNone

NoCall ==
    [op |-> "none", env |-> Env(InvokerReturnsNone, TRUE, <<>>, "u1", "returns"),
     registered |-> FALSE, attempted |-> FALSE, remote |-> NoRemote,
     local_calls |-> 0, status |-> "none", output |-> NoOutput, error |-> NoError,
     emitted |-> <<>>, callbacks |-> <<>>]

RunRole(role, env, sdkOk, hasInvoker, registered, hs) ==
    LET agent == AgentName(role)
        pre == _emit_hook(hs, "pre_tool_use", agent)
        post == _emit_hook(hs, "post_tool_use", agent)
        attempted == RemoteAttempted(sdkOk)
        remote == IF attempted THEN _run_via_sdk(role, env, sdkOk, hasInvoker)
                  ELSE NoRemote
        base == [op |-> role, env |-> env, registered |-> registered]
        \* the invocation ends in an error before the post_tool_use event
        Fails(err, r, calls) ==
            base @@ [attempted |-> attempted, remote |-> r,
                     local_calls |-> calls, status |-> "raised",
                     output |-> NoOutput, error |-> err,
                     emitted |-> <<PrePayload(role)>>, callbacks |-> pre.callbacks]
        \* payload.update(...), the post_tool_use event, return output
        Finishes(output, r, calls) ==
            base @@ [attempted |-> attempted, remote |-> r, local_calls |-> calls,
                     status |-> IF post.raised THEN "raised" ELSE "returned",
                     output |-> IF post.raised THEN NoOutput ELSE output,
                     error |-> IF post.raised THEN HookError ELSE NoError,
                     emitted |-> <<PrePayload(role), PostPayload(role, output)>>,
                     callbacks |-> pre.callbacks \o post.callbacks]
    IN  IF pre.raised
        THEN base @@ [attempted |-> FALSE, remote |-> NoRemote, local_calls |-> 0,
                      status |-> "raised", output |-> NoOutput, error |-> HookError,
                      emitted |-> <<PrePayload(role)>>, callbacks |-> pre.callbacks]
        ELSE IF remote.raised /\ Reraised(remote.err)
        THEN Fails(remote.err, remote, 0)
        ELSE IF NeedsLocal(remote)
        THEN LET local == _run_locally(role, registered, env.local) IN
             IF local.raised
             THEN Fails(local.err, remote, local.calls)
             ELSE Finishes(local.output, remote, local.calls)
        ELSE Finishes(remote.output, remote, 0)

\* self._session after a role invocation: the SDK path calls ensure_session()
SessionAfterRun(sdkOk, hasInvoker, kind, sess, hs) ==
    IF RemoteAttempted(sdkOk) /\ ~hasInvoker /\ ~_emit_hook(hs, "pre_tool_use", "").raised
    THEN SessionAfterEnsure(kind, sess)
    ELSE sess

(***************************************************************************)
(* The inputs of the model                                                 *)
(***************************************************************************)
MaxMsgs == 2

ObjGood == MembersToObject(<<"fa", "bi">>, {})
ObjCurator ==
    {[k |-> "delta",
      v |-> VDict({[k |-> "operations",
                    v |-> VList(<<VDict({[k |-> "type", v |-> VStr("ADD")],
                                         [k |-> "content", v |-> VStr("Add numbers")]})>>)]})]}

UUIDs == {"u1", "u2"}

LocalBehaviours == {"returns", "raises"}

OwnResult(agent, content) ==
    AssistantMessage(<<ToolResultBlock(ToolUseId(agent, "u1"), FALSE, content)>>)

\* the messages the exchanges of the model are made of
CoreMessages(agent) ==
    { OwnResult(agent, CDict(ObjGood)),
      OwnResult(agent, CStr(<<"x">>)),
      AssistantMessage(<<ToolResultBlock(ToolUseId(agent, "u1"), TRUE,
                                         CStr(<<"boom">>))>>),
      AssistantMessage(<<TextBlock,
                         ToolResultBlock(ToolUseId(agent, "u2"), TRUE,
                                         CStr(<<"{", "re", "}">>))>>),
      ResultMessage(FALSE, "done"),
      ResultMessage(TRUE, "boom") }

\* more shapes of content, each in an exchange of one message
ExtraContents ==
    { CStr(<<"{", "fa", "bi", "}">>),
      CStr(<<"ws", "{", "re", "}", "ws">>),
      CStr(<<"7">>),
      CStr(<<"ws">>),
      CStr(<<>>),
      CList(<<Fragment(<<"{", "fa">>), ImageItem, Fragment(<<"}">>)>>),
      CList(<<BareItem>>),
      CList(<<>>),
      CDict(ObjCurator),
      CNone,
      COther }

SeqsUpTo(S, n) == UNION {[1..k -> S] : k \in 0..n}

Exchanges(agent) ==
    SeqsUpTo(CoreMessages(agent), MaxMsgs)
        \cup {<<OwnResult(agent, c)>> : c \in ExtraContents}

InvokerResponses ==
    { InvokerReturnsNone,
      InvokerReturns(ObjGood),
      InvokerReturns(ObjCurator),
      InvokerReturns({}),
      InvokerRaises(Err("ClaudeAgentRuntimeUnavailable", "agent_invoker", "unavailable")),
      InvokerRaises(Err("Exception", "agent_invoker", "failed")) }

\* what the collaborators may do in an invocation of `role`
Envs(role) ==
    IF ~sdk
    THEN {Env(InvokerReturnsNone, TRUE, <<>>, "u1", l) : l \in LocalBehaviours}
    ELSE IF agent_invoker
    THEN {Env(r, TRUE, <<>>, "u1", l) : r \in InvokerResponses, l \in LocalBehaviours}
    ELSE {Env(InvokerReturnsNone, TRUE, m, u, l) :
              m \in Exchanges(AgentName(role)), u \in UUIDs, l \in LocalBehaviours}
         \cup {Env(InvokerReturnsNone, FALSE, <<>>, "u1", l) : l \in LocalBehaviours}

FailingPre  == HookMatcher("pre_tool_use", "failing")
CapturePre  == HookMatcher("pre_tool_use", "capture")
FailingPost == HookMatcher("post_tool_use", "failing")
CapturePost == HookMatcher("post_tool_use", "capture")
CaptureEnv  == HookMatcher("environment_feedback", "capture")

\* the hooks=... argument of the constructor
InitHooks ==
    { <<>>,
      <<CapturePre, CapturePost, CaptureEnv>>,
      <<FailingPre, CapturePre, CapturePost, FailingPost, CapturePost>> }

ClientKinds == {"plain", "broken"}

\* no _emit_hook call yet
NoEmission == [event |-> "none", agent |-> "none", callbacks |-> <<>>]

\* nothing decoded yet
NoDecoding == [role |-> "none"]

\* no run_tests call yet
NoRun == [status |-> "none"]

\* no operation called on the coordinator yet
NoCycleOp == [name |-> "none", status |-> "none"]

\* no Document phase has returned a summary yet
NoSummary == [session_id |-> "none"]

\* a Playbook is the list of its bullets; a new one has none
EmptyPlaybook == <<>>

\* mutant: the bridge applies the delta of a curator output itself
PlaybookAfterRun_Applied(pb, c) ==
    IF c.op = "curator" /\ c.status = "returned"
    THEN pb \o [i \in 1..Len(c.output.delta.operations) |->
                    c.output.delta.operations[i].content]
    ELSE pb

\* the playbook after run_<role>(playbook=pb, ...) with outcome c: the bridge calls
\* playbook.as_prompt() for the request and hands the reference to the local
\* implementation and to the post_tool_use payload; no statement updates it
PlaybookAfterRun(pb, c) == pb

(***************************************************************************)
(* The session                                                             *)
(***************************************************************************)
\* ClosedCycleCoordinator.__init__
CoordinatorInit ==
    /\ session_id = "None"
    /\ task_id = "None"
    /\ phase_transitions = <<>>
    /\ test_results = <<>>
    /\ accepted_deltas = <<>>
    /\ rejected_deltas = <<>>
    /\ cycle_op = NoCycleOp
    /\ cycle_calls = 0
    /\ summary = NoSummary

\* ACEClaudeSession.__post_init__: self._hooks = list(self.hooks or [])
PostInit(given) ==
    /\ hooks = given
    /\ lifecycle = [started |-> 0, closed |-> 0, op |-> "none", status |-> "none",
                    was |-> "None", opened |-> FALSE]
    /\ registrations = <<given>>
    /\ emission = NoEmission

Init ==
    /\ sdk \in BOOLEAN
    /\ agent_invoker \in BOOLEAN
    /\ fallback \in [Roles -> BOOLEAN]
    /\ \E given \in InitHooks : PostInit(given)
    /\ clientKind \in ClientKinds
    /\ session = "None"
    /\ call = NoCall
    /\ playbook = EmptyPlaybook
    /\ decoding = NoDecoding
    /\ runner = NoRun
    /\ CoordinatorInit

\* one invocation of a role, from its call to its return or raise. A role is
\* invoked when the caller holds no unread result: the session itself keeps
\* nothing of a finished invocation, so this only bounds what is recorded.
Invocations(role) ==
    { RunRole(role, env, sdk, agent_invoker, fallback[role], hooks) : env \in Envs(role) }

run_generator ==
    /\ call = NoCall
    /\ call' \in Invocations("generator")
    /\ session' = SessionAfterRun(sdk, agent_invoker, clientKind, session, hooks)
    /\ playbook' = PlaybookAfterRun(playbook, call')
    /\ lifecycle' = Started(lifecycle, session, session')
    /\ UNCHANGED <<sdk, agent_invoker, fallback, hooks, clientKind>>
    /\ UNCHANGED <<hookVars, decoding, runner, cycleVars>>

run_reflector ==
    /\ call = NoCall
    /\ call' \in Invocations("reflector")
    /\ session' = SessionAfterRun(sdk, agent_invoker, clientKind, session, hooks)
    /\ playbook' = PlaybookAfterRun(playbook, call')
    /\ lifecycle' = Started(lifecycle, session, session')
    /\ UNCHANGED <<sdk, agent_invoker, fallback, hooks, clientKind>>
    /\ UNCHANGED <<hookVars, decoding, runner, cycleVars>>

run_curator ==
    /\ call = NoCall
    /\ call' \in Invocations("curator")
    /\ session' = SessionAfterRun(sdk, agent_invoker, clientKind, session, hooks)
    /\ playbook' = PlaybookAfterRun(playbook, call')
    /\ lifecycle' = Started(lifecycle, session, session')
    /\ UNCHANGED <<sdk, agent_invoker, fallback, hooks, clientKind>>
    /\ UNCHANGED <<hookVars, decoding, runner, cycleVars>>

register_local_roles ==
    /\ \E given \in (SUBSET Roles) \ {{}} :
          fallback' = [r \in Roles |-> fallback[r] \/ r \in given]
    /\ UNCHANGED <<sdk, agent_invoker, hooks, clientKind, session, call, lifecycle>>
    /\ UNCHANGED <<hookVars, playbook, decoding, runner, cycleVars>>

\* the caller takes the result; the session keeps nothing of a finished invocation
Forget ==
    /\ call # NoCall
    /\ call' = NoCall
    /\ UNCHANGED <<sdk, agent_invoker, fallback, hooks, clientKind, session, lifecycle>>
    /\ UNCHANGED <<hookVars, playbook, decoding, runner, cycleVars>>

Next ==
    \/ run_generator
    \/ run_reflector
    \/ run_curator
    \/ register_local_roles
    \/ Forget

Spec == Init /\ [][Next]_vars

(***************************************************************************)
(* What the claims speak of, read off the recorded invocation              *)
(***************************************************************************)
Invoked == call.op \in Roles

EventsOf(payloads) == [i \in 1..Len(payloads) |-> payloads[i].event]

\* the tool_use_id of the request of the recorded invocation
CallId == ToolUseId(AgentName(call.op), call.env.uuid)

\* the invocation went through an exchange with the backend that drained
Drained == Invoked /\ sdk /\ ~agent_invoker /\ call.env.transport_ok

\* the positions <<i, j>> of the tool result blocks that carry the request's id
MatchingBlocks ==
    { p \in (1..Len(call.env.messages)) \X (1..2) :
        /\ call.env.messages[p[1]].type = "assistant"
        /\ p[2] <= Len(call.env.messages[p[1]].content)
        /\ call.env.messages[p[1]].content[p[2]].type = "tool_result"
        /\ call.env.messages[p[1]].content[p[2]].tool_use_id = CallId }

BlockAt(p) == call.env.messages[p[1]].content[p[2]]

\* the backend flagged failure: an error result message, or an error block with the id
ErrorResults ==
    { i \in 1..Len(call.env.messages) :
        call.env.messages[i].type = "result" /\ call.env.messages[i].is_error }

ErrorBlocks == { p \in MatchingBlocks : BlockAt(p).is_error }

FlaggedFailure == Drained /\ (ErrorResults # {} \/ ErrorBlocks # {})

\* the messages the backend reported with its failures
ReportedMessages ==
    { call.env.messages[i].result : i \in ErrorResults }
        \cup { ContentText(BlockAt(p).content) : p \in ErrorBlocks }

\* the last block with the request's id
LastMatching ==
    CHOOSE p \in MatchingBlocks :
        \A q \in MatchingBlocks : q[1] < p[1] \/ (q[1] = p[1] /\ q[2] <= p[2])

\* the caller got what the local path gives
LocalResult ==
    /\ call.registered /\ call.env.local = "returns" =>
          /\ call.status = "returned"
          /\ call.output = LocalOutput(call.op)
          /\ call.local_calls = 1
    /\ call.registered /\ call.env.local = "raises" =>
          /\ call.status = "raised"
          /\ call.error.site = "local_implementation"
          /\ call.local_calls = 1
    /\ ~call.registered =>
          /\ call.status = "raised"
          /\ call.error.site = "fallback_not_configured"
          /\ call.local_calls = 0

\* the candidate of a drained exchange in which the backend flagged no failure
HasCandidate == Drained /\ ~FlaggedFailure /\ MatchingBlocks # {}

Candidate == BlockAt(LastMatching).content

NonJsonCandidate == HasCandidate /\ Candidate = CStr(<<"x">>)

NonObjectCandidate == HasCandidate /\ Candidate = CStr(<<"7">>)

\* the remote attempt raised ClaudeAgentRuntimeUnavailable (the agent invoker did)
RemoteRaisedUnavailable ==
    /\ Invoked /\ sdk /\ agent_invoker
    /\ call.env.invoker.kind = "raise"
    /\ call.env.invoker.err.cls = "ClaudeAgentRuntimeUnavailable"

\* the remote attempt failed otherwise: the transport, or the agent invoker
GenericRemoteFailure ==
    /\ Invoked /\ sdk
    /\ \/ ~agent_invoker /\ ~call.env.transport_ok
       \/ /\ agent_invoker
          /\ call.env.invoker.kind = "raise"
          /\ call.env.invoker.err.cls # "ClaudeAgentRuntimeUnavailable"

\* the agent invoker returned a result object
RemoteReturned ==
    Invoked /\ sdk /\ agent_invoker /\ call.env.invoker.kind = "dict"

\* the hooks of a label, the hooks whose callback ran, and the same call without hooks
MatchersOf(event) == { i \in 1..Len(hooks) : hooks[i].event = event }

InvokedFor(event) ==
    { call.callbacks[n].hook : n \in { m \in 1..Len(call.callbacks) :
                                         call.callbacks[m].event = event } }

WithoutHooks ==
    RunRole(call.op, call.env, sdk, agent_invoker, call.registered, <<>>)

(***************************************************************************)
(* C1: with no SDK and a local implementation registered that returns, the *)
(* invocation returns exactly the local implementation's output, and the   *)
(* events of the call are pre_tool_use then post_tool_use, both with the   *)
(* agent name of the role; capture hooks log exactly these two.            *)
(***************************************************************************)
C1_LocalFallback ==
    Invoked /\ ~sdk /\ call.registered /\ call.env.local = "returns" =>
        /\ call.status = "returned"
        /\ call.output = LocalOutput(call.op)
        /\ call.local_calls = 1
        /\ EventsOf(call.emitted) = <<"pre_tool_use", "post_tool_use">>
        /\ \A i \in 1..2 : call.emitted[i].agent = AgentName(call.op)
        /\ hooks = <<CapturePre, CapturePost, CaptureEnv>> =>
              /\ EventsOf(call.callbacks) = <<"pre_tool_use", "post_tool_use">>
              /\ \A i \in 1..2 : call.callbacks[i].agent = AgentName(call.op)

C1_Witness ==
    /\ call.op = "generator" /\ ~sdk /\ call.registered
    /\ hooks = <<CapturePre, CapturePost, CaptureEnv>>
    /\ call.status = "returned"
    /\ call.output.final_answer = "4"

(***************************************************************************)
(* C2: when the remote path gives no result (it is not tried, it returns   *)
(* None, or it fails with an error that is not re-raised) and no local     *)
(* implementation is registered, the invocation raises the "fallback not   *)
(* configured" error and returns no output.                                *)
(***************************************************************************)
C2_RoleUnavailable ==
    /\ Invoked
    /\ ~call.registered
    /\ ~call.attempted \/ call.remote.isNone
    /\ ~(call.remote.raised /\ IsRuntimeUnavailable(call.remote.err))
    =>
        /\ call.status = "raised"
        /\ call.error.cls = "ClaudeAgentRuntimeUnavailable"
        /\ call.error.site = "fallback_not_configured"
        /\ call.output = NoOutput
        /\ call.local_calls = 0

C2_Witness ==
    /\ call.op = "curator" /\ ~call.registered /\ call.attempted
    /\ ~call.remote.raised /\ call.remote.isNone
    /\ call.error.site = "fallback_not_configured"

(***************************************************************************)
(* C3 as stated: every invocation, also one that ends in an error, has     *)
(* exactly one pre_tool_use and one post_tool_use event, in this order.    *)
(***************************************************************************)
C3_Original ==
    Invoked => EventsOf(call.emitted) = <<"pre_tool_use", "post_tool_use">>

(***************************************************************************)
(* C3 amended: every invocation emits exactly one pre_tool_use event, and  *)
(* it is the first; an invocation that returns emits exactly one           *)
(* post_tool_use event after it, whose payload carries the returned output *)
(* (and, for the curator, its delta); an invocation that raises emits no   *)
(* post_tool_use event.                                                    *)
(***************************************************************************)
C3_EventsOfAnInvocation ==
    Invoked =>
        /\ Len(call.emitted) >= 1
        /\ call.emitted[1] = PrePayload(call.op)
        /\ call.status = "returned" =>
              /\ EventsOf(call.emitted) = <<"pre_tool_use", "post_tool_use">>
              /\ call.emitted[2].agent = AgentName(call.op)
              /\ call.emitted[2].has_result
              /\ call.emitted[2].output = call.output
              /\ call.op = "curator" =>
                    /\ call.emitted[2].has_delta
                    /\ call.emitted[2].delta = call.output.delta
        /\ call.status = "raised" => EventsOf(call.emitted) = <<"pre_tool_use">>

C3_Witness ==
    /\ call.op = "curator" /\ call.status = "returned" /\ call.local_calls = 0
    /\ Len(call.emitted) = 2
    /\ call.emitted[2].delta.operations # <<>>

C5_Original ==
    NonJsonCandidate \/ NonObjectCandidate =>
        /\ call.status = "raised"
        /\ call.error.cls = "ValueError"
        /\ call.local_calls = 0

(***************************************************************************)
(* C5 amended: a candidate that does not parse, or parses to something     *)
(* that is no object, makes the remote attempt raise a ValueError (one     *)
(* raise for each of the two cases); the role method catches it and takes  *)
(* it for "no remote result": the caller gets what the local path gives,   *)
(* never the decode error.                                                 *)
(***************************************************************************)
C5_DecodeErrorFallsBack ==
    /\ NonJsonCandidate =>
          /\ call.remote.raised
          /\ call.remote.err.cls = "ValueError"
          /\ call.remote.err.site = "non_json_payload"
    /\ NonObjectCandidate =>
          /\ call.remote.raised
          /\ call.remote.err.cls = "ValueError"
          /\ call.remote.err.site = "not_an_object"
    /\ NonJsonCandidate \/ NonObjectCandidate =>
          /\ call.error # call.remote.err
          /\ LocalResult

C5_Witness ==
    /\ NonObjectCandidate
    /\ call.remote.err.site = "not_an_object"
    /\ call.status = "returned" /\ call.local_calls = 1

(***************************************************************************)
(* C6: when the remote attempt raises ClaudeAgentRuntimeUnavailable, the   *)
(* invocation raises that error: no output, and the local implementation   *)
(* is not invoked even when one is registered.                             *)
(***************************************************************************)
C6_RuntimeUnavailablePropagates ==
    RemoteRaisedUnavailable =>
        /\ call.status = "raised"
        /\ call.error = call.env.invoker.err
        /\ call.output = NoOutput
        /\ call.local_calls = 0
        /\ EventsOf(call.emitted) = <<"pre_tool_use">>

C6_Witness ==
    /\ RemoteRaisedUnavailable /\ call.registered /\ call.env.local = "returns"
    /\ call.status = "raised" /\ call.error.site = "agent_invoker"

(***************************************************************************)
(* C7: when the remote attempt fails with an exception that is not         *)
(* ClaudeAgentRuntimeUnavailable (the transport fails, or the invoker      *)
(* raises), the failure is not surfaced: a registered local implementation *)
(* is invoked exactly once and its output returned; the invocation raises  *)
(* only when the local path fails, and then with the local path's error.   *)
(***************************************************************************)
C7_GenericFailureFallsBack ==
    GenericRemoteFailure =>
        /\ call.remote.raised
        /\ call.error # call.remote.err
        /\ LocalResult

C7_Witness ==
    /\ GenericRemoteFailure /\ ~agent_invoker
    /\ call.remote.err.site = "transport"
    /\ call.status = "returned" /\ call.local_calls = 1
    /\ call.output = LocalOutput(call.op)

(***************************************************************************)
(* C8: when the remote path returns a result (the agent invoker returns an *)
(* object, or the exchange yields a candidate that decodes to an object),  *)
(* the invocation returns the decoding of that result and the local        *)
(* implementation is not called, for each of the three roles.              *)
(***************************************************************************)
C8_RemoteResultPreferred ==
    /\ RemoteReturned =>
          /\ call.status = "returned"
          /\ call.local_calls = 0
          /\ call.output.role = call.op
          /\ call.output.raw = call.env.invoker.d
          /\ call.op = "generator" /\ call.env.invoker.d = ObjGood =>
                /\ call.output.final_answer = "42"
                /\ call.output.bullet_ids = <<"b-1">>
          /\ call.op = "reflector" /\ call.env.invoker.d = {} =>
                /\ call.output.key_insight = ""
                /\ call.output.bullet_tags = <<>>
          /\ call.op = "curator" /\ call.env.invoker.d = ObjCurator =>
                /\ Len(call.output.delta.operations) = 1
                /\ call.output.delta.operations[1].content = "Add numbers"
    /\ HasCandidate /\ Candidate \in {CDict(ObjGood), CStr(<<"{", "fa", "bi", "}">>)} =>
          /\ call.status = "returned"
          /\ call.local_calls = 0
          /\ call.output.role = call.op
          /\ call.output.raw = ObjGood
          /\ call.op = "generator" =>
                /\ call.output.final_answer = "42"
                /\ call.output.bullet_ids = <<"b-1">>

C8_Witness ==
    /\ RemoteReturned /\ call.op = "curator" /\ call.registered
    /\ call.env.invoker.d = ObjCurator
    /\ call.status = "returned" /\ call.local_calls = 0

(***************************************************************************)
(* C9: in a drained exchange only a tool result block with the request's   *)
(* id becomes the candidate: a remote result is the decoding of the last   *)
(* such block; without any such block (blocks with other ids or not) there *)
(* is no remote result, no block is taken for an error, and the caller     *)
(* gets what the local path gives.                                         *)
(***************************************************************************)
C9_OnlyMatchingBlocks ==
    /\ Drained /\ ~call.remote.isNone =>
          /\ MatchingBlocks # {}
          /\ ~Candidate.shape = "none"
          /\ Candidate.shape = "dict" => call.output.raw = Candidate.obj
          /\ call.local_calls = 0
    /\ Drained /\ MatchingBlocks = {} =>
          /\ call.remote.isNone
          /\ call.remote.raised => call.remote.err.site = "result_is_error"
          /\ ErrorResults = {} => ~call.remote.raised
          /\ LocalResult

C9_Witness ==
    /\ Drained /\ MatchingBlocks = {} /\ ErrorResults = {}
    /\ \E i \in 1..Len(call.env.messages) :
          /\ call.env.messages[i].type = "assistant"
          /\ \E j \in 1..Len(call.env.messages[i].content) :
                call.env.messages[i].content[j].type = "tool_result"
    /\ call.status = "returned" /\ call.local_calls = 1

(***************************************************************************)
(* C10: a hook callback that raises is swallowed: every matcher of the     *)
(* emitted label is still invoked, in the order of the hook list, also     *)
(* those after the failing one, and the invocation ends as it does with no *)
(* hook registered.                                                        *)
(***************************************************************************)
C10_HookFailureSwallowed ==
    Invoked =>
        /\ InvokedFor("pre_tool_use") = MatchersOf("pre_tool_use")
        /\ call.status = "returned" =>
              InvokedFor("post_tool_use") = MatchersOf("post_tool_use")
        /\ call.status = WithoutHooks.status
        /\ call.output = WithoutHooks.output
        /\ call.error = WithoutHooks.error
        /\ call.local_calls = WithoutHooks.local_calls
        /\ call.error # HookError

C10_Witness ==
    /\ Invoked
    /\ hooks = <<FailingPre, CapturePre, CapturePost, FailingPost, CapturePost>>
    /\ call.status = "returned"
    /\ Len(call.callbacks) = 5
    /\ call.callbacks[1].callback = "failing"
    /\ call.callbacks[2].callback = "capture"
    /\ call.callbacks[4].callback = "failing"
    /\ call.callbacks[5].callback = "capture"

(***************************************************************************)
(* The hook bus on its own: the constructor's hooks, register_hooks and    *)
(* _emit_hook.                                                             *)
(***************************************************************************)
MaxRegistrations == 2

TracePre  == HookMatcher("pre_tool_use", "trace")
TracePost == HookMatcher("post_tool_use", "trace")

\* the hooks argument of a register_hooks call
HookArguments ==
    { <<TracePost>>,
      <<CapturePre>>,
      <<CaptureEnv, TracePre>>,
      <<TracePost, FailingPost, TracePost>>,
      <<FailingPre, FailingPre>> }

\* hook in self._hooks: the == of a dataclass compares the fields
Contains(hs, hook) == \E i \in 1..Len(hs) : hs[i] = hook

RECURSIVE Registered(_, _)
\* for hook in hooks: if hook not in self._hooks: self._hooks.append(hook)
Registered(hs, given) ==
    IF given = <<>> THEN hs
    ELSE Registered(IF Contains(hs, Head(given)) THEN hs ELSE Append(hs, Head(given)),
                    Tail(given))

register_hooks ==
    /\ Len(registrations) <= MaxRegistrations
    /\ \E given \in HookArguments :
          /\ hooks' = Registered(hooks, given)
          /\ registrations' = Append(registrations, given)
    /\ UNCHANGED <<sdk, agent_invoker, fallback, clientKind, session, call, lifecycle, emission>>
    /\ UNCHANGED <<playbook, decoding, runner, cycleVars>>

\* the event labels _emit_hook is called with (run_* and emit_environment_feedback)
EventLabels == {"pre_tool_use", "post_tool_use", "environment_feedback"}

\* one call of self._emit_hook(event, payload)
emit ==
    /\ \E event \in EventLabels, role \in Roles :
          emission' = [event |-> event, agent |-> AgentName(role), over |-> hooks,
                       callbacks |-> _emit_hook(hooks, event, AgentName(role)).callbacks]
    /\ UNCHANGED <<bridgeVars, registrations, playbook, decoding, runner, cycleVars>>

\* a session with the given hooks that no role is invoked on, next to a new
\* coordinator and an unused test runner
AtRest(given) ==
    /\ sdk = FALSE
    /\ agent_invoker = FALSE
    /\ fallback = [r \in Roles |-> FALSE]
    /\ PostInit(given)
    /\ clientKind = "plain"
    /\ session = "None"
    /\ call = NoCall
    /\ playbook = EmptyPlaybook
    /\ decoding = NoDecoding
    /\ runner = NoRun
    /\ CoordinatorInit

HookInit == \E given \in InitHooks : AtRest(given)

HookNext ==
    \/ register_hooks
    \/ emit

HookSpec == HookInit /\ [][HookNext]_vars

\* the matchers given so far, constructor first, then the register_hooks calls
RECURSIVE Flatten(_)
Flatten(lists) == IF lists = <<>> THEN <<>> ELSE Head(lists) \o Flatten(Tail(lists))

\* a list without the later occurrences of a value it already holds
RECURSIVE FirstOccurrences(_)
FirstOccurrences(l) ==
    IF l = <<>> THEN <<>>
    ELSE LET front == FirstOccurrences(SubSeq(l, 1, Len(l) - 1)) IN
         IF Contains(front, l[Len(l)]) THEN front ELSE Append(front, l[Len(l)])

\* the positions of the list whose matcher has the label, in increasing order
PositionsOf(hs, event) ==
    SelectSeq([i \in 1..Len(hs) |-> i], LAMBDA i : hs[i].event = event)

(***************************************************************************)
(* C11: an emission of a label runs the callback of every matcher of the   *)
(* hook list that has this label, in the order of the list, and of no      *)
(* other matcher; and the list holds the matchers in the order they were   *)
(* registered: those of the constructor first, then those of the           *)
(* register_hooks calls in call order.                                     *)
(***************************************************************************)
C11_EmitInRegistrationOrder ==
    /\ FirstOccurrences(hooks) = FirstOccurrences(Flatten(registrations))
    /\ SubSeq(hooks, 1, Len(registrations[1])) = registrations[1]
    /\ emission # NoEmission =>
          LET at == PositionsOf(emission.over, emission.event) IN
          /\ Len(emission.callbacks) = Len(at)
          /\ \A j \in 1..Len(at) :
                /\ emission.callbacks[j].hook = at[j]
                /\ emission.callbacks[j].callback = emission.over[at[j]].callback
                /\ emission.callbacks[j].event = emission.event
                /\ emission.callbacks[j].agent = emission.agent

C11_Witness ==
    /\ Len(registrations) = 3
    /\ emission # NoEmission
    /\ emission.over = hooks
    /\ emission.event = "post_tool_use"
    /\ Len(emission.callbacks) >= 3
    /\ emission.callbacks[1].hook <= Len(registrations[1])
    /\ emission.callbacks[Len(emission.callbacks)].hook > Len(registrations[1])
    /\ \E i \in 1..Len(hooks) : hooks[i].event # "post_tool_use"

(***************************************************************************)
(* C12: no matcher is in the hook list twice, whatever hooks the           *)
(* constructor was given and whatever register_hooks calls followed, so an *)
(* emission runs the callback of a matcher at most once.                   *)
(***************************************************************************)
C12_NoMatcherTwice ==
    /\ \A i, j \in 1..Len(hooks) : hooks[i] = hooks[j] => i = j
    /\ emission # NoEmission =>
          \A a, b \in 1..Len(emission.callbacks) :
              emission.over[emission.callbacks[a].hook]
                  = emission.over[emission.callbacks[b].hook] => a = b

(***************************************************************************)
(* TestRunner (ace/skills_builder/tools/test_runner.py). Coverage ratios   *)
(* are in percent. stderr_summary is "None" for Python's None, "" for the  *)
(* empty string and a word for any other text.                             *)
(***************************************************************************)
BranchThreshold == 80
LinesThreshold == 85

TestResult(test_mode, passed, total_tests, failed_tests, coverage, report, stderr_summary) ==
    [test_mode |-> test_mode, passed |-> passed, total_tests |-> total_tests,
     failed_tests |-> failed_tests, coverage_branch |-> coverage[1],
     coverage_lines |-> coverage[2], json_report_path |-> report,
     stderr_summary |-> stderr_summary]

\* what one run of the tests meets: the arguments and the machine it runs on
RunEnv(dry_run, import_ok, mkdir_ok, process, returncode, failed, stderr, coverage) ==
    [dry_run |-> dry_run, import_ok |-> import_ok, mkdir_ok |-> mkdir_ok,
     process |-> process, returncode |-> returncode, failed |-> failed, succeeded |-> 3,
     stderr |-> stderr, coverage |-> coverage]

_run_dry_run(env) ==
    IF env.import_ok
    THEN TestResult("dry_run", TRUE, 0, 0, <<0, 0>>, "None", "None")
    ELSE TestResult("dry_run", FALSE, 0, 0, <<0, 0>>, "None", "import failed")

\* the report gives the totals, coverage.json the ratios; stderr_summary is the
\* last ten lines of the process's stderr, set only when the run did not pass
_parse_pytest_output(env) ==
    LET passed == env.returncode = 0 /\ env.failed = 0 IN
    TestResult("pytest", passed, env.failed + env.succeeded, env.failed, env.coverage,
               "report",
               IF passed THEN "None" ELSE env.stderr)

_check_coverage_thresholds(test_result) ==
    /\ test_result.coverage_branch >= BranchThreshold
    /\ test_result.coverage_lines >= LinesThreshold

RunReturned(result) == [status |-> "returned", result |-> result, error |-> NoError]
RunRaised(err) ==
    [status |-> "raised", result |-> TestResult("pytest", FALSE, 0, 0, <<0, 0>>, "None", "None"),
     error |-> err]

\* TestRunner.run_tests(test_path, dry_run)
TestRunner_run_tests(env) ==
    IF env.dry_run THEN RunReturned(_run_dry_run(env))
    ELSE IF ~env.mkdir_ok
    THEN RunRaised(Err("OSError", "output_dir.mkdir", "cannot create the report directory"))
    ELSE CASE env.process = "timeout" ->
                RunReturned(TestResult("pytest", FALSE, 0, 0, <<0, 0>>, "None", "timed out"))
           [] env.process = "failed" ->
                RunReturned(TestResult("pytest", FALSE, 0, 0, <<0, 0>>, "None", "error text"))
           [] env.process = "completed" ->
                LET test_result == _parse_pytest_output(env) IN
                RunReturned(IF test_result.passed
                            THEN [test_result EXCEPT
                                     !.passed = _check_coverage_thresholds(test_result)]
                            ELSE test_result)

Coverages == {<<0, 0>>, <<90, 90>>, <<90, 50>>, <<80, 85>>, <<79, 85>>}

RunEnvs ==
    { RunEnv(d, i, m, p, rc, f, e, c) :
        d \in BOOLEAN, i \in BOOLEAN, m \in BOOLEAN,
        p \in {"completed", "timeout", "failed"}, rc \in {0, 1}, f \in {0, 2},
        e \in {"", "stderr tail"}, c \in Coverages }

\* one call of the test tool
run_tests ==
    /\ \E env \in RunEnvs :
          runner' = [env |-> env] @@ TestRunner_run_tests(env)
    /\ UNCHANGED <<bridgeVars, hookVars, playbook, decoding, cycleVars>>

RunnerSpec == AtRest(<<>>) /\ [][run_tests]_vars

\* the run of the recorded call did not get to a passing result
RunFailed ==
    \/ ~runner.env.dry_run /\ ~runner.env.mkdir_ok
    \/ ~runner.env.dry_run /\ runner.env.process # "completed"
    \/ ~runner.env.dry_run /\ (runner.env.returncode # 0 \/ runner.env.failed > 0)
    \/ ~runner.env.dry_run /\ ~( /\ runner.env.coverage[1] >= BranchThreshold
                                 /\ runner.env.coverage[2] >= LinesThreshold )
    \/ runner.env.dry_run /\ ~runner.env.import_ok

(***************************************************************************)
(* C18: run_tests never raises; every failure (timeout, process or         *)
(* filesystem error, failing tests, coverage below a threshold) comes back *)
(* as a result with passed = false, and every result with passed = false   *)
(* has a stderr_summary that is neither None nor empty.                    *)
(***************************************************************************)
C18_NeverRaisesAndExplains ==
    runner # NoRun =>
        /\ runner.status = "returned"
        /\ RunFailed => ~runner.result.passed
        /\ ~runner.result.passed => runner.result.stderr_summary \notin {"None", ""}

(***************************************************************************)
(* ClosedCycleCoordinator (ace/skills_builder/tools/closed_cycle.py)       *)
(***************************************************************************)
MaxCalls == 4

\* models.PhaseTransition; retry_count is left to the default of the field
PhaseTransition(from_phase, to_phase, sid, tid, trigger_reason) ==
    [from_phase |-> from_phase, to_phase |-> to_phase, session_id |-> sid,
     task_id |-> tid, retry_count |-> 0, trigger_reason |-> trigger_reason]

\* self.session_id or "unknown"
OrUnknown(id) == IF id = "None" THEN "unknown" ELSE id

\* mutant: the two phases of a transition change places
_transition_phase_Swapped(log, sid, tid, from_phase, to_phase, reason) ==
    Append(log, PhaseTransition(to_phase, from_phase, OrUnknown(sid), OrUnknown(tid), reason))

_transition_phase(log, sid, tid, from_phase, to_phase, reason) ==
    Append(log, PhaseTransition(from_phase, to_phase, OrUnknown(sid), OrUnknown(tid), reason))

\* f"delta_{n}"
DeltaId(n) == <<"delta", n>>

NoResult == TestResult("none", FALSE, 0, 0, <<0, 0>>, "None", "None")

\* review["coverage_ok"]
CoverageOk(test_result) ==
    /\ test_result.coverage_branch >= BranchThreshold
    /\ test_result.coverage_lines >= LinesThreshold

\* an operation of the coordinator as the caller sees it
CycleOp(name, status, result, recommendation) ==
    [name |-> name, status |-> status, result |-> result,
     coverage_ok |-> CoverageOk(result), recommendation |-> recommendation]

SessionIds == {"s1", "s2"}
TaskIds == {"t1"}

\* the runs of the tests a Test phase may meet: a dry run, a run that passes with
\* coverage above the thresholds, a run with failing tests, and a run whose report
\* directory cannot be made
TestEnvs ==
    { RunEnv(TRUE,  TRUE, TRUE,  "completed", 0, 0, "", <<0, 0>>),
      RunEnv(FALSE, TRUE, TRUE,  "completed", 0, 0, "", <<90, 90>>),
      RunEnv(FALSE, TRUE, TRUE,  "completed", 1, 2, "", <<90, 90>>),
      RunEnv(FALSE, TRUE, FALSE, "completed", 0, 0, "", <<90, 90>>) }

\* the test_result argument of execute_review_phase: a result of the test runner
ReviewInputs ==
    { TestRunner_run_tests(env).result :
        env \in {e \in TestEnvs : TestRunner_run_tests(e).status = "returned"} }

\* every operation of the coordinator counts as one call
Called == cycle_calls < MaxCalls /\ cycle_calls' = cycle_calls + 1

\* ClosedCycleSummary(...) of _generate_summary; the markdown text is kept as
\* what it is written from: the three counts and one line for every entry of log
_generate_summary(sid, tid, accepted, rejected, results, log) ==
    [session_id       |-> OrUnknown(sid),
     task_id          |-> OrUnknown(tid),
     accepted_deltas  |-> accepted,
     rejected_deltas  |-> rejected,
     test_results     |-> results,
     markdown_summary |->
         [accepted |-> Len(accepted), rejected |-> Len(rejected), runs |-> Len(results),
          timeline |-> [i \in 1..Len(log) |->
                           <<log[i].from_phase, log[i].to_phase, log[i].trigger_reason>>]]]

\* mutant: the summary holds the lists of the coordinator themselves
HeldSummary_Aliased(s, accepted, rejected, results) ==
    IF s = NoSummary THEN s
    ELSE [s EXCEPT !.accepted_deltas = accepted, !.rejected_deltas = rejected,
                   !.test_results = results]

\* a summary already returned, after an operation that leaves the coordinator's
\* lists as given: validation of the list fields of ClosedCycleSummary built new
\* lists, and the text is a str, so nothing appended later reaches it
HeldSummary(s, accepted, rejected, results) == s

start_cycle ==
    /\ Called
    /\ \E sid \in SessionIds, tid \in TaskIds :
          /\ session_id' = sid
          /\ task_id' = tid
          /\ phase_transitions' =
                _transition_phase(phase_transitions, sid, tid, "idle", "plan",
                                  "Starting closed cycle")
    /\ cycle_op' = CycleOp("start_cycle", "returned", NoResult, "none")
    /\ UNCHANGED <<test_results, accepted_deltas, rejected_deltas>>
    /\ summary' = HeldSummary(summary, accepted_deltas', rejected_deltas', test_results')
    /\ UNCHANGED <<bridgeVars, hookVars, playbook, decoding, runner>>

execute_plan_phase ==
    /\ Called
    /\ phase_transitions' =
          _transition_phase(phase_transitions, session_id, task_id, "plan", "build",
                            "Plan created successfully")
    /\ cycle_op' = CycleOp("execute_plan_phase", "returned", NoResult, "none")
    /\ UNCHANGED <<session_id, task_id, test_results, accepted_deltas, rejected_deltas>>
    /\ summary' = HeldSummary(summary, accepted_deltas', rejected_deltas', test_results')
    /\ UNCHANGED <<bridgeVars, hookVars, playbook, decoding, runner>>

execute_build_phase ==
    /\ Called
    /\ phase_transitions' =
          _transition_phase(phase_transitions, session_id, task_id, "build", "test",
                            "Build completed")
    /\ cycle_op' = CycleOp("execute_build_phase", "returned", NoResult, "none")
    /\ UNCHANGED <<session_id, task_id, test_results, accepted_deltas, rejected_deltas>>
    /\ summary' = HeldSummary(summary, accepted_deltas', rejected_deltas', test_results')
    /\ UNCHANGED <<bridgeVars, hookVars, playbook, decoding, runner>>

execute_test_phase ==
    /\ Called
    /\ \E env \in TestEnvs :
          LET entered == _transition_phase(phase_transitions, session_id, task_id,
                                           "build", "test", "Running tests")
              run == TestRunner_run_tests(env)
              test_result == run.result
          IN  IF run.status = "raised"
              THEN /\ phase_transitions' = entered
                   /\ test_results' = test_results
                   /\ cycle_op' = CycleOp("execute_test_phase", "raised", NoResult, "none")
              ELSE /\ test_results' = Append(test_results, test_result)
                   /\ phase_transitions' =
                         IF test_result.passed
                         THEN _transition_phase(entered, session_id, task_id,
                                                "test", "review", "Tests passed")
                         ELSE _transition_phase(entered, session_id, task_id,
                                                "test", "build", "Tests failed")
                   /\ cycle_op' = CycleOp("execute_test_phase", "returned", test_result,
                                          "none")
    /\ UNCHANGED <<session_id, task_id, accepted_deltas, rejected_deltas>>
    /\ summary' = HeldSummary(summary, accepted_deltas', rejected_deltas', test_results')
    /\ UNCHANGED <<bridgeVars, hookVars, playbook, decoding, runner>>

\* review["recommendation"]
Recommendation(test_result) == IF test_result.passed THEN "accept" ELSE "reject"

execute_review_phase ==
    /\ Called
    /\ \E test_result \in ReviewInputs :
          /\ IF Recommendation(test_result) = "accept"
             THEN /\ accepted_deltas' =
                        Append(accepted_deltas, DeltaId(Len(accepted_deltas) + 1))
                  /\ rejected_deltas' = rejected_deltas
                  /\ phase_transitions' =
                        _transition_phase(phase_transitions, session_id, task_id,
                                          "review", "document", "Delta accepted")
             ELSE /\ rejected_deltas' =
                        Append(rejected_deltas, DeltaId(Len(rejected_deltas) + 1))
                  /\ accepted_deltas' = accepted_deltas
                  /\ phase_transitions' =
                        _transition_phase(phase_transitions, session_id, task_id,
                                          "review", "build", "Delta rejected, retrying")
          /\ cycle_op' = CycleOp("execute_review_phase", "returned", test_result,
                                 Recommendation(test_result))
    /\ UNCHANGED <<session_id, task_id, test_results>>
    /\ summary' = HeldSummary(summary, accepted_deltas', rejected_deltas', test_results')
    /\ UNCHANGED <<bridgeVars, hookVars, playbook, decoding, runner>>

execute_document_phase ==
    /\ Called
    /\ LET entered == _transition_phase(phase_transitions, session_id, task_id,
                                        "review", "document", "Generating documentation")
       IN  /\ summary' = _generate_summary(session_id, task_id, accepted_deltas,
                                           rejected_deltas, test_results, entered)
           /\ phase_transitions' =
                  _transition_phase(entered, session_id, task_id,
                                    "document", "complete", "Cycle completed")
    /\ cycle_op' = CycleOp("execute_document_phase", "returned", NoResult, "none")
    /\ UNCHANGED <<session_id, task_id, test_results, accepted_deltas, rejected_deltas>>
    /\ UNCHANGED <<bridgeVars, hookVars, playbook, decoding, runner>>

CycleNext ==
    \/ start_cycle
    \/ execute_plan_phase
    \/ execute_build_phase
    \/ execute_test_phase
    \/ execute_review_phase
    \/ execute_document_phase

CycleSpec == AtRest(<<>>) /\ [][CycleNext]_vars

\* the (fromPhase, toPhase) of an entry of the log
PairOf(transition) == <<transition.from_phase, transition.to_phase>>

\* how many entries of the log are the given pair
CountOf(pair) ==
    Cardinality({i \in 1..Len(phase_transitions) : PairOf(phase_transitions[i]) = pair})

LastTransition == phase_transitions[Len(phase_transitions)]

TransitionTable ==
    { <<"idle", "plan">>, <<"plan", "build">>, <<"build", "test">>,
      <<"test", "review">>, <<"test", "build">>, <<"review", "document">>,
      <<"review", "build">>, <<"document", "complete">> }

RetryPairs == { <<"test", "build">>, <<"review", "build">> }

\* the entry of the log that opened the cycle entry i belongs to (0: none did)
CycleStartOf(i) ==
    LET starts == {j \in 1..i : PairOf(phase_transitions[j]) = <<"idle", "plan">>}
    IN  IF starts = {} THEN 0 ELSE CHOOSE j \in starts : \A k \in starts : k <= j

\* the retry transitions of its cycle up to and including entry i
RetriesUpTo(i) ==
    Cardinality({j \in 1..i : /\ j >= CycleStartOf(i)
                              /\ PairOf(phase_transitions[j]) \in RetryPairs})

(***************************************************************************)
(* C13: whatever operations of the coordinator are called, in whatever     *)
(* order and number, every (fromPhase, toPhase) pair of the transition log *)
(* is one of the eight pairs of the transition table.                      *)
(***************************************************************************)
C13_TransitionsInTable ==
    \A i \in 1..Len(phase_transitions) : PairOf(phase_transitions[i]) \in TransitionTable

C13_Witness ==
    /\ Len(phase_transitions) >= 4
    /\ PairOf(phase_transitions[1]) = <<"review", "document">>
    /\ PairOf(phase_transitions[2]) = <<"document", "complete">>
    /\ \E i \in 3..Len(phase_transitions) : PairOf(phase_transitions[i]) = <<"test", "build">>
    /\ PairOf(LastTransition) = <<"idle", "plan">>

(***************************************************************************)
(* C14: every Test phase entry records, after its (build, test) entry,     *)
(* exactly one transition out of test: (test, review) if and only if the   *)
(* outcome passed, (test, build) if and only if it did not.                *)
(***************************************************************************)
C14_TestOutcomeDecides ==
    cycle_op.name = "execute_test_phase" =>
        LET n == Len(phase_transitions) IN
        /\ n >= 2
        /\ PairOf(phase_transitions[n - 1]) = <<"build", "test">>
        /\ LastTransition.from_phase = "test"
        /\ LastTransition.to_phase = "review" <=> cycle_op.result.passed
        /\ LastTransition.to_phase = "build" <=> ~cycle_op.result.passed

(***************************************************************************)
(* C15: a retry transition, (test, build) or (review, build), carries a    *)
(* retry count one above the count before it: the k-th retry transition of *)
(* a cycle has retry_count = k.                                            *)
(***************************************************************************)
C15_RetryCountIncrements ==
    \A i \in 1..Len(phase_transitions) :
        PairOf(phase_transitions[i]) \in RetryPairs =>
            phase_transitions[i].retry_count = RetriesUpTo(i)

(***************************************************************************)
(* C16: the review accepts if and only if the outcome it reviews passed    *)
(* and its branch and line coverage are at or above the thresholds; in     *)
(* every other case it rejects and records (review, build).                *)
(***************************************************************************)
C16_ReviewPolicy ==
    cycle_op.name = "execute_review_phase" =>
        /\ cycle_op.recommendation = "accept" <=>
              /\ cycle_op.result.passed
              /\ cycle_op.result.coverage_branch >= BranchThreshold
              /\ cycle_op.result.coverage_lines >= LinesThreshold
        /\ cycle_op.recommendation # "accept" =>
              /\ cycle_op.recommendation = "reject"
              /\ PairOf(LastTransition) = <<"review", "build">>

(***************************************************************************)
(* C17: the log has as many (review, document) transitions as there are    *)
(* accepted ids and as many (review, build) transitions as there are       *)
(* rejected ids; a Test phase entry leaves both id lists as they are.      *)
(***************************************************************************)
C17_IdsGoWithTransitions ==
    /\ CountOf(<<"review", "document">>) = Len(accepted_deltas)
    /\ CountOf(<<"review", "build">>) = Len(rejected_deltas)

(***************************************************************************)
(* The playbook of the caller: it goes into every role invocation, and the *)
(* caller applies the delta of a curator output to it once the bridge has  *)
(* returned.                                                               *)
(***************************************************************************)
MaxBullets == 2

\* the bullets the operations of a delta batch add
Additions(delta) == [i \in 1..Len(delta.operations) |-> delta.operations[i].content]

\* the caller: playbook.apply_delta(curator_output.delta)
apply_delta ==
    /\ call.op = "curator"
    /\ call.status = "returned"
    /\ Len(playbook) + Len(call.output.delta.operations) <= MaxBullets
    /\ playbook' = playbook \o Additions(call.output.delta)
    /\ call' = NoCall
    /\ UNCHANGED <<sdk, agent_invoker, fallback, hooks, clientKind, session, lifecycle>>
    /\ UNCHANGED <<hookVars, decoding, runner, cycleVars>>

\* a session with all three local roles and observing hooks
PlaybookInit ==
    /\ sdk \in BOOLEAN
    /\ agent_invoker \in BOOLEAN
    /\ fallback = [r \in Roles |-> TRUE]
    /\ PostInit(<<CapturePre, CapturePost, CaptureEnv>>)
    /\ clientKind = "plain"
    /\ session = "None"
    /\ call = NoCall
    /\ playbook = EmptyPlaybook
    /\ decoding = NoDecoding
    /\ runner = NoRun
    /\ CoordinatorInit

PlaybookNext ==
    \/ run_generator
    \/ run_reflector
    \/ run_curator
    \/ apply_delta
    \/ Forget

PlaybookSpec == PlaybookInit /\ [][PlaybookNext]_vars

(***************************************************************************)
(* C19: a role invocation leaves the playbook it was given as it is, on    *)
(* the remote path and on the local one (the local implementations of the  *)
(* model only read it); the playbook changes only when the caller applies  *)
(* the delta of a curator output the bridge has returned.                  *)
(***************************************************************************)
C19_BridgeLeavesPlaybook ==
    [][ /\ (call = NoCall /\ call' # NoCall) => playbook' = playbook
        /\ playbook' # playbook =>
              /\ call.op = "curator"
              /\ call.status = "returned"
              /\ playbook' = playbook \o Additions(call.output.delta) ]_vars

C19_Witness ==
    /\ playbook = <<"Add numbers">>
    /\ call.op = "curator"
    /\ call.status = "returned"
    /\ call.attempted
    /\ call.local_calls = 0
    /\ call.output.delta.operations # <<>>

(***************************************************************************)
(* Decoding on its own: one object arrives as the content of the matched   *)
(* tool result in one of its shapes, and the SDK path decodes it.          *)
(***************************************************************************)
MaxMembers == 2
MaxFragments == 3

\* the members of an object in the order a serializer writes them
MemberLists ==
    { l \in SeqsUpTo(MemberTokens, MaxMembers) : \A i, j \in 1..Len(l) : l[i] = l[j] => i = j }

ObjectOf(toks) == {MemberOf(toks[i]) : i \in 1..Len(toks)}

\* a text with the characters of "fa" in two halves
RECURSIVE Finer(_)
Finer(text) ==
    IF text = <<>> THEN <<>>
    ELSE (IF Head(text) = "fa" THEN <<"fa1", "fa2">> ELSE <<Head(text)>>) \o Finer(Tail(text))

\* every way to cut a text into at most MaxFragments fragments
\* {"type": "text", "text": ...}: k fragments, cut after the places c
Fragmentations(text) ==
    LET Pieces(c, k) ==
            [i \in 1..k |->
                Fragment(SubSeq(text, IF i = 1 THEN 1 ELSE c[i - 1] + 1,
                                      IF i = k THEN Len(text) ELSE c[i]))]
    IN  UNION { { Pieces(c, k) :
                    c \in { d \in [1..(k - 1) -> 0..Len(text)] :
                              \A i \in 1..(k - 2) : d[i] <= d[i + 1] } } :
                k \in 1..MaxFragments }

\* the shapes the object may arrive in: itself, its text token by token, and
\* that text in fragments
ContentsOf(toks) ==
    LET text == <<"{">> \o toks \o <<"}">> IN
    { CDict(ObjectOf(toks)), CStr(text), CStr(Finer(text)) }
        \cup { CList(items) : items \in Fragmentations(Finer(text)) }

\* the exchange that carries the content, as _invoke_claude_agent_via_sdk collects it
Carrying(role, content) ==
    Env(InvokerReturnsNone, TRUE, <<OwnResult(AgentName(role), content)>>, "u1", "returns")

DecodeInit ==
    /\ sdk = TRUE
    /\ agent_invoker = FALSE
    /\ fallback = [r \in Roles |-> FALSE]
    /\ PostInit(<<>>)
    /\ clientKind = "plain"
    /\ session = "None"
    /\ call = NoCall
    /\ playbook = EmptyPlaybook
    /\ \E role \in Roles, toks \in MemberLists :
          \E content \in ContentsOf(toks) :
              decoding = [role |-> role, obj |-> ObjectOf(toks), content |-> content,
                          done |-> FALSE, result |-> NoRemote]
    /\ runner = NoRun
    /\ CoordinatorInit

\* _run_<role>_via_sdk over the exchange: scan, _parse_tool_result, _coerce_<role>_output
decode ==
    /\ decoding # NoDecoding
    /\ ~decoding.done
    /\ decoding' = [decoding EXCEPT
                       !.done = TRUE,
                       !.result = _run_via_sdk(decoding.role,
                                               Carrying(decoding.role, decoding.content),
                                               sdk, agent_invoker)]
    /\ UNCHANGED <<bridgeVars, hookVars, playbook, runner, cycleVars>>

DecodeSpec == DecodeInit /\ [][decode]_vars

(***************************************************************************)
(* C20: an object decodes to the same output in whatever shape it arrives: *)
(* as the object itself, as its serialized text, or as that text cut into  *)
(* a list of text fragments; the object with final answer "42" and item    *)
(* ids ["b-1"] decodes to a generator output with final_answer "42" and    *)
(* bullet_ids ["b-1"].                                                     *)
(***************************************************************************)
C20_DecodingIgnoresShape ==
    decoding # NoDecoding /\ decoding.done =>
        /\ ~decoding.result.raised
        /\ ~decoding.result.isNone
        /\ decoding.result =
              _run_via_sdk(decoding.role, Carrying(decoding.role, CDict(decoding.obj)),
                           sdk, agent_invoker)
        /\ decoding.result.output.raw = decoding.obj
        /\ decoding.role = "generator" /\ decoding.obj = ObjGood =>
              /\ decoding.result.output.final_answer = "42"
              /\ decoding.result.output.bullet_ids = <<"b-1">>

C20_Witness ==
    /\ decoding # NoDecoding
    /\ decoding.done
    /\ decoding.role = "generator"
    /\ decoding.obj = ObjGood
    /\ decoding.content.shape = "list"
    /\ Len(decoding.content.items) = 3
    /\ \E i \in 1..2 :
          LET text == decoding.content.items[i].text IN
          text # <<>> /\ text[Len(text)] = "fa1"
    /\ decoding.result.output.final_answer = "42"

(***************************************************************************)
(* Coercion on its own: a decoded object whose fields are present or       *)
(* missing, of the expected type or of another, goes through               *)
(* _coerce_generator_output or _coerce_reflector_output.                   *)
(***************************************************************************)
\* the decoded objects: for each key, no member (<<>>) or a member with one of
\* the values the key may hold
CoerceObjects ==
    LET Keys == {"final_answer", "bullet_ids", "bullet_tags", "extra"}
        ValuesOf(k) ==
            CASE k = "final_answer" -> {VStr("42"), VInt("7"), VList(<<>>)}
              [] k = "bullet_ids"   -> {VList(<<VStr("b-1")>>),
                                        VList(<<VStr("b-1"), VList(<<>>), VInt("7")>>),
                                        VStr("b-1"), VInt("7"), VDict({})}
              [] k = "bullet_tags"  -> {VList(<<VDict({[k |-> "id", v |-> VStr("b-1")],
                                                       [k |-> "tag", v |-> VStr("HELPFUL")]}),
                                                VDict({[k |-> "id", v |-> VStr("b-1")]}),
                                                VStr("b-1")>>),
                                        VStr("b-1"), VDict({})}
              [] k = "extra"        -> {VStr("sdk")}
        Picks == { f \in [Keys -> {<<>>} \cup UNION {ValuesOf(k) : k \in Keys}] :
                     \A k \in Keys : f[k] = <<>> \/ f[k] \in ValuesOf(k) }
    IN  { {[k |-> k, v |-> f[k]] : k \in {j \in Keys : f[j] # <<>>}} : f \in Picks }

\* _coerce_generator_output(data) or _coerce_reflector_output(data); no
\* statement of either can raise on a dict of JSON values
coerce ==
    /\ \E role \in {"generator", "reflector"}, data \in CoerceObjects :
          decoding' = [role |-> role, obj |-> data, content |-> CDict(data), done |-> TRUE,
                       result |-> [raised |-> FALSE, err |-> NoError, isNone |-> FALSE,
                                   output |-> Coerce(role, data)]]
    /\ UNCHANGED <<bridgeVars, hookVars, playbook, runner, cycleVars>>

CoerceSpec == AtRest(<<>>) /\ [][coerce]_vars

\* the text fields of an output
TextFields(role) ==
    IF role = "generator" THEN {"reasoning", "final_answer"}
    ELSE {"reasoning", "error_identification", "root_cause_analysis",
          "correct_approach", "key_insight"}

\* the key of the id or tag sequence of a role, and the field it goes to
SequenceKey(role) == IF role = "generator" THEN "bullet_ids" ELSE "bullet_tags"

SequenceOf(output) ==
    IF output.role = "generator" THEN output.bullet_ids ELSE output.bullet_tags

\* an entry of the sequence that is what the role expects
WellFormedEntry(role, item) ==
    IF role = "generator" THEN item.ty \in {"str", "int"}
    ELSE item.ty = "dict" /\ HasKey(item.o, "id") /\ HasKey(item.o, "tag")

(***************************************************************************)
(* C21: mapping a decoded object into a generator or reflector output      *)
(* never raises; a missing text field becomes empty text, a missing or     *)
(* malformed id or tag sequence becomes the empty sequence, malformed      *)
(* entries of a sequence are skipped, and raw is the decoded object.       *)
(***************************************************************************)
C21_CoercionDefaults ==
    decoding # NoDecoding /\ decoding.done =>
        LET role == decoding.role
            data == decoding.obj
            output == decoding.result.output
            key == SequenceKey(role)
        IN  /\ ~decoding.result.raised
            /\ output.raw = data
            /\ \A f \in TextFields(role) : ~HasKey(data, f) => output[f] = ""
            /\ ~HasKey(data, key) => SequenceOf(output) = <<>>
            /\ HasKey(data, key) /\ Get(data, key, VList(<<>>)).ty # "list" =>
                  SequenceOf(output) = <<>>
            /\ HasKey(data, key) /\ Get(data, key, VList(<<>>)).ty = "list" =>
                  Len(SequenceOf(output)) =
                      Cardinality({ i \in 1..Len(Get(data, key, VList(<<>>)).l) :
                                      WellFormedEntry(role, Get(data, key, VList(<<>>)).l[i]) })

(***************************************************************************)
(* The coordinator again: what its lists say about the calls made.         *)
(***************************************************************************)
\* the entries of the log with the given trigger_reason
EntriesFor(reason) ==
    {i \in 1..Len(phase_transitions) : phase_transitions[i].trigger_reason = reason}

\* a Test phase entry is a call of execute_test_phase: its first statement
\* records (build, test) with the reason "Running tests"
TestEntries == Cardinality(EntriesFor("Running tests"))

(***************************************************************************)
(* C22: every Test phase entry runs the tests once and appends one outcome *)
(* before it records its transition out of test: the outcome list is as    *)
(* long as the number of Test phase entries, and as long as the number of  *)
(* (test, review) and (test, build) transitions together.                  *)
(***************************************************************************)
C22_OneOutcomePerEntry ==
    /\ Len(test_results) = TestEntries
    /\ Len(test_results) = CountOf(<<"test", "review">>) + CountOf(<<"test", "build">>)

\* the reasons that may follow a reason in the log when the operations are
\* called in the documented order: start_cycle, Plan, Build, Test, Review,
\* Document, with Build and Test again after a failed test or a rejected review
ReasonsAfter(reason) ==
    CASE reason = "Starting closed cycle"     -> {"Plan created successfully"}
      [] reason = "Plan created successfully" -> {"Build completed"}
      [] reason = "Build completed"           -> {"Running tests"}
      [] reason = "Running tests"             -> {"Tests passed", "Tests failed"}
      [] reason = "Tests passed"              -> {"Delta accepted", "Delta rejected, retrying"}
      [] reason = "Tests failed"              -> {"Build completed"}
      [] reason = "Delta accepted"            -> {"Generating documentation"}
      [] reason = "Delta rejected, retrying"  -> {"Build completed"}
      [] reason = "Generating documentation"  -> {"Cycle completed"}
      [] OTHER                                -> {}

DocumentedOrder ==
    /\ phase_transitions # <<>> => phase_transitions[1].trigger_reason = "Starting closed cycle"
    /\ \A i \in 2..Len(phase_transitions) :
          phase_transitions[i].trigger_reason
              \in ReasonsAfter(phase_transitions[i - 1].trigger_reason)

(***************************************************************************)
(* C23: when the operations are called in the documented order, the log is *)
(* one walk of the state machine: it starts from idle, every later entry   *)
(* starts from the phase the entry before it went to, and no transition is *)
(* recorded twice for one visit.                                           *)
(***************************************************************************)
C23_SequentialWalk ==
    DocumentedOrder =>
        /\ phase_transitions # <<>> => phase_transitions[1].from_phase = "idle"
        /\ \A i \in 2..Len(phase_transitions) :
              /\ phase_transitions[i].from_phase = phase_transitions[i - 1].to_phase
              /\ PairOf(phase_transitions[i]) # PairOf(phase_transitions[i - 1])

(***************************************************************************)
(* C26: a (document, complete) entry of the log has before it, in the same *)
(* cycle, a Test phase entry whose outcome passed and an accepting review; *)
(* the list of accepted ids is then not empty.                             *)
(***************************************************************************)
C26_CompleteOnlyAfterAccept ==
    \A i \in 1..Len(phase_transitions) :
        PairOf(phase_transitions[i]) = <<"document", "complete">> =>
            /\ CycleStartOf(i) > 0
            /\ \E j \in CycleStartOf(i)..i : j \in EntriesFor("Tests passed")
            /\ \E j \in CycleStartOf(i)..i : j \in EntriesFor("Delta accepted")
            /\ accepted_deltas # <<>>

(***************************************************************************)
(* C27: the ids the Review phase records identify its decisions: no id is  *)
(* twice in the accepted list, none twice in the rejected list, and none   *)
(* in both.                                                                *)
(***************************************************************************)
C27_DeltaIdsUnique ==
    /\ \A i, j \in 1..Len(accepted_deltas) : accepted_deltas[i] = accepted_deltas[j] => i = j
    /\ \A i, j \in 1..Len(rejected_deltas) : rejected_deltas[i] = rejected_deltas[j] => i = j
    /\ \A i \in 1..Len(accepted_deltas), j \in 1..Len(rejected_deltas) :
          accepted_deltas[i] # rejected_deltas[j]

(***************************************************************************)
(* C28: the lists of the coordinator belong to one cycle: once start_cycle *)
(* was called, every entry of the log carries its session and task ids,    *)
(* and when start_cycle returns the log holds its (idle, plan) entry only  *)
(* and the outcome, accepted and rejected lists are empty.                 *)
(***************************************************************************)
C28_StateScopedToCycle ==
    /\ session_id # "None" =>
          \A i \in 1..Len(phase_transitions) :
              /\ phase_transitions[i].session_id = session_id
              /\ phase_transitions[i].task_id = task_id
    /\ cycle_op.name = "start_cycle" =>
          /\ Len(phase_transitions) = 1
          /\ test_results = <<>>
          /\ accepted_deltas = <<>>
          /\ rejected_deltas = <<>>

\* the lines a phase timeline has for a log
TimelineOf(log) ==
    [i \in 1..Len(log) |-> <<log[i].from_phase, log[i].to_phase, log[i].trigger_reason>>]

(***************************************************************************)
(* C24: the summary the Document phase returns is written from the whole   *)
(* state of the cycle: its accepted ids, rejected ids and outcomes are the *)
(* lists of the coordinator, and its timeline has every transition of the  *)
(* log, in order, up to and including (document, complete).                *)
(***************************************************************************)
C24_SummaryFromFullState ==
    cycle_op.name = "execute_document_phase" =>
        /\ summary.accepted_deltas = accepted_deltas
        /\ summary.rejected_deltas = rejected_deltas
        /\ summary.test_results = test_results
        /\ summary.markdown_summary.timeline = TimelineOf(phase_transitions)
        /\ PairOf(LastTransition) = <<"document", "complete">>

(***************************************************************************)
(* C25: a summary the Document phase has returned stays as it is whatever  *)
(* is called on the coordinator afterwards: its accepted ids, rejected     *)
(* ids, outcomes and text do not change when a later review, test or cycle *)
(* start appends to the lists of the coordinator.                          *)
(***************************************************************************)
C25_SummaryImmutable ==
    [][summary # NoSummary /\ cycle_op'.name # "execute_document_phase" =>
          /\ summary'.accepted_deltas = summary.accepted_deltas
          /\ summary'.rejected_deltas = summary.rejected_deltas
          /\ summary'.test_results = summary.test_results
          /\ summary'.markdown_summary = summary.markdown_summary]_vars

C25_Witness ==
    /\ summary # NoSummary
    /\ cycle_op.name \in {"execute_review_phase", "execute_test_phase"}
    /\ Len(accepted_deltas) + Len(rejected_deltas) + Len(test_results) >
          Len(summary.accepted_deltas) + Len(summary.rejected_deltas)
              + Len(summary.test_results)
    /\ Len(phase_transitions) > Len(summary.markdown_summary.timeline) + 1

\* a text of whitespace only, the empty text included
AllWs(text) == \A i \in 1..Len(text) : text[i] = "ws"

\* the candidate of a drained exchange has no text once normalized
EmptyCandidate ==
    /\ HasCandidate
    /\ \/ Candidate.shape = "str" /\ AllWs(Candidate.text)
       \/ /\ Candidate.shape = "list"
          /\ \A i \in 1..Len(Candidate.items) :
                Candidate.items[i].isDict /\ Candidate.items[i].hasText =>
                    AllWs(Candidate.items[i].text)
       \/ Candidate.shape = "other"

(***************************************************************************)
(* C29: a matched candidate whose normalized text is empty (an empty or    *)
(* whitespace-only string, a list without text, a content that is no       *)
(* object, string or list) decodes to the empty object without an error:   *)
(* the invocation returns an output whose typed fields are the defaults    *)
(* and whose raw is the empty object, and the local implementation is not  *)
(* invoked.                                                                *)
(***************************************************************************)
C29_EmptyCandidateIsEmptyObject ==
    EmptyCandidate =>
        /\ ~call.remote.raised
        /\ ~call.remote.isNone
        /\ call.status = "returned"
        /\ call.local_calls = 0
        /\ call.output.raw = {}
        /\ call.op = "generator" =>
              /\ call.output.reasoning = "" /\ call.output.final_answer = ""
              /\ call.output.bullet_ids = <<>>
        /\ call.op = "reflector" =>
              /\ call.output.reasoning = "" /\ call.output.error_identification = ""
              /\ call.output.root_cause_analysis = "" /\ call.output.correct_approach = ""
              /\ call.output.key_insight = "" /\ call.output.bullet_tags = <<>>
        /\ call.op = "curator" =>
              call.output.delta = [reasoning |-> "", operations |-> <<>>]

C29_Witness ==
    /\ EmptyCandidate
    /\ Candidate = CList(<<BareItem>>)
    /\ call.op = "generator"
    /\ call.registered /\ call.env.local = "returns"
    /\ call.status = "returned"
    /\ call.output.raw = {}
    /\ call.local_calls = 0

(***************************************************************************)
(* The lifecycle of the remote session: ensure_session and close called    *)
(* in any order on a session of any kind of client.                        *)
(***************************************************************************)
MaxSessions == 3

ensure_session ==
    /\ lifecycle.started < MaxSessions
    /\ IF ~sdk
       THEN /\ session' = session
            /\ lifecycle' = [lifecycle EXCEPT !.op = "ensure_session", !.status = "raised",
                                              !.was = session, !.opened = FALSE]
       ELSE /\ session' = SessionAfterEnsure(clientKind, session)
            /\ lifecycle' = [Started(lifecycle, session, session') EXCEPT
                                !.op = "ensure_session", !.status = "returned",
                                !.was = session,
                                !.opened = (session = "None" /\ session' # "None")]
    /\ UNCHANGED <<sdk, agent_invoker, fallback, hooks, clientKind, call>>
    /\ UNCHANGED <<hookVars, playbook, decoding, runner, cycleVars>>

close ==
    /\ \E behaviour \in {"absent", "returns", "raises"} :
          IF session = "None"
          THEN /\ session' = session
               /\ lifecycle' = [lifecycle EXCEPT !.op = "close", !.status = "returned",
                                                 !.was = session, !.opened = FALSE]
          ELSE /\ session' = SessionAfterClose(session, behaviour)
               /\ lifecycle' = [lifecycle EXCEPT
                                   !.closed = IF session' = "None" THEN @ + 1 ELSE @,
                                   !.op = "close",
                                   !.status = IF behaviour = "raises" THEN "raised"
                                              ELSE "returned",
                                   !.was = session, !.opened = FALSE]
    /\ UNCHANGED <<sdk, agent_invoker, fallback, hooks, clientKind, call>>
    /\ UNCHANGED <<hookVars, playbook, decoding, runner, cycleVars>>

\* a new ACEClaudeSession over any kind of client, with or without the SDK
SessionInit ==
    /\ sdk \in BOOLEAN
    /\ agent_invoker \in BOOLEAN
    /\ fallback \in [Roles -> BOOLEAN]
    /\ PostInit(<<>>)
    /\ clientKind \in {"plain", "starter", "attrerr", "broken"}
    /\ session = "None"
    /\ call = NoCall
    /\ playbook = EmptyPlaybook
    /\ decoding = NoDecoding
    /\ runner = NoRun
    /\ CoordinatorInit

SessionSpec == SessionInit /\ [][ensure_session \/ close]_vars

(***************************************************************************)
(* C30: at most one remote session is open: ensure_session starts one only *)
(* when none is open and returns the open one otherwise; close leaves none *)
(* open, also when the close of the session raises, and does nothing when  *)
(* none is open; the sessions started are those closed, or one more.       *)
(***************************************************************************)
C30_AtMostOneSession ==
    /\ lifecycle.started - lifecycle.closed \in {0, 1}
    /\ session # "None" <=> lifecycle.started - lifecycle.closed = 1
    /\ lifecycle.op = "ensure_session" /\ lifecycle.status = "returned" =>
          /\ lifecycle.opened => lifecycle.was = "None"
          /\ lifecycle.was # "None" => session = lifecycle.was
    /\ lifecycle.op = "close" =>
          /\ session = "None"
          /\ lifecycle.was = "None" => lifecycle.status = "returned"

C30_Witness ==
    /\ lifecycle.op = "close"
    /\ lifecycle.status = "raised"
    /\ lifecycle.was = "session"
    /\ session = "None"
    /\ lifecycle.started = 2
    /\ lifecycle.closed = 2

====
